---- MODULE Spec2Model ----
(***************************************************************************)
(* Probe programs of test-aux/: each probe is a process whose only result  *)
(* is its wait status.  The operating system the probes call into (stdio,  *)
(* the file system, SysV IPC, credentials, the memory manager, threads     *)
(* and signals) is modelled as far as the probes observe it.               *)
(***************************************************************************)
EXTENDS Integers, Sequences, FiniteSets, TLC

VARIABLES
    fs, dirWritable, runs,                 \* rw.c: files, parent directory, log of runs
    shm, shm0, inst,                       \* shm.c: SysV segments per IPC namespace, instances
    failed, cputime, cmain, wk, cstatus,   \* cpuset.cc
    cred, uidmap, sres, sstatus,           \* setuid.c
    ceil, mpc, touched, mstatus,           \* memory.c
    cap, frames, pstatus,                  \* waste-pid.cc
    disp, tpc, tstatus, nterm, iter         \* orga-itsuka.c

rwVars   == <<fs, dirWritable, runs>>
shmVars  == <<shm, shm0, inst>>
cpuVars  == <<failed, cputime, cmain, wk, cstatus>>
suidVars == <<cred, uidmap, sres, sstatus>>
memVars  == <<ceil, mpc, touched, mstatus>>
pidVars  == <<cap, frames, pstatus>>
termVars == <<disp, tpc, tstatus, nterm, iter>>
vars == <<rwVars, shmVars, cpuVars, suidVars, memVars, pidVars, termVars>>

(***************************************************************************)
(* Wait status of a process: a normal exit with a code, or death by a      *)
(* signal; Running while the process has not ended.                        *)
(***************************************************************************)
Exited(n)     == [exit |-> n, sig |-> "none"]
Signaled(s)   == [exit |-> -1, sig |-> s]
Running       == [exit |-> -1, sig |-> "running"]

(***************************************************************************)
(*                      File round-trip probe (rw.c)                       *)
(***************************************************************************)
Rep(c, n) == [i \in 1..n |-> c]

\* static const char *content = "1145141919810";
content == <<"1","1","4","5","1","4","1","9","1","9","8","1","0">>

\* char buf[256];
BufSize == 256

\* Number of successive runs of the probe the model follows.
MaxRuns == 2

Paths == {"p"}
Whitespace == {" ", "\n", "\t"}

\* File contents the runs start from: no token, the oracle alone and between
\* white space, unrelated tokens, and tokens at and over the size of buf.
Contents ==
    { <<>>, <<" ", "\n">>, content, <<" ", "\n">> \o content \o <<"\n">>,
      content \o <<" ", "x">>, <<"1","1","4">>, content \o <<"0">>,
      Rep("a", BufSize - 1), Rep("a", BufSize) }

StdinContents == { <<>>, content \o <<"\n">>, <<"x", "\n">> }

NoFile == [exists |-> FALSE, data |-> <<>>, perm |-> "rw"]
Files == {NoFile} \cup [exists : {TRUE}, data : Contents, perm : {"rw", "r-"}]

\* fopen(argv[2], argv[1]): the stream's file after the open, or failure.
\* "w" creates the file or truncates it; "r" needs the file to exist.
fopen(file, dirw, mode) ==
    IF mode = "r"
    THEN [ok |-> file.exists, file |-> file]
    ELSE IF file.exists
         THEN [ok |-> file.perm = "rw",
               file |-> IF file.perm = "rw" THEN [file EXCEPT !.data = <<>>] ELSE file]
         ELSE [ok |-> dirw,
               file |-> IF dirw THEN [exists |-> TRUE, data |-> <<>>, perm |-> "rw"]
                        ELSE file]

\* fputs(content, f): the token goes to the stream's buffer; the return value
\* is negative only when the stream writes at once and the write fails.
fputs(wfail) == IF wfail = "fputs" THEN -1 ELSE 1

\* The flush of the stream's buffer when main returns: the data reaches the
\* target unless the write fails, and nothing reads the flush's result.
ExitFlush(data, buffered, wfail) ==
    IF wfail = "none" THEN data \o buffered ELSE data

\* Index of the first character of s at or after i that is (white = TRUE) or
\* is not (white = FALSE) white space; Len(s) + 1 when there is none.
Scan(s, i, white) ==
    LET hits == {j \in i..Len(s) : (s[j] \in Whitespace) = white}
    IN  IF hits = {} THEN Len(s) + 1
        ELSE CHOOSE j \in hits : \A h \in hits : j <= h

\* fscanf(f, "%s", buf): skips white space, stores the characters up to the
\* next white space and a terminating NUL in buf; no field width is given.
\* n is the return value (1, or EOF = -1 when the input ends first).
fscanf_s(data) ==
    LET first == Scan(data, 1, FALSE)
        tok == SubSeq(data, first, Scan(data, first, TRUE) - 1)
    IN  [n |-> IF tok = <<>> THEN -1 ELSE 1,
         tok |-> tok,
         overflow |-> Len(tok) + 1 > BufSize]

strcmp(a, b) == IF a = b THEN 0 ELSE 1

\* What a store past the end of buf can lead to.
OverflowOutcomes == {Exited(4), Signaled("SIGSEGV"), Signaled("SIGABRT")}

\* main of rw.c on one invocation.  inv: argv (argv[1] is the program name),
\* sin (what stdin holds), wfail (where a failing write shows: "none", at
\* "fputs" or at the "flush" on exit); ub picks the outcome of an overflow.
\* Result: the wait status, the file afterwards and what reached stdout.
rw_main(inv, file, dirw, ub) ==
    LET argv == inv.argv
        argc == Len(argv)
        same == [status |-> Running, file |-> file, out |-> <<>>]
    IN
    IF argc # 3 /\ argc # 2 THEN [same EXCEPT !.status = Exited(1)]
    ELSE IF argv[2] # "w" /\ argv[2] # "r" THEN [same EXCEPT !.status = Exited(1)]
    ELSE
    LET w == argv[2] = "w"
        o == IF argc = 2 THEN [ok |-> TRUE, file |-> file]
             ELSE fopen(file, dirw, argv[2])
        src == IF argc = 2 THEN inv.sin ELSE o.file.data
    IN
    IF ~o.ok THEN [same EXCEPT !.status = Exited(2)]
    ELSE IF w THEN
        IF fputs(inv.wfail) < 0
        THEN [status |-> Exited(3), file |-> o.file, out |-> <<>>]
        ELSE IF argc = 2
             THEN [status |-> Exited(0), file |-> file,
                   out |-> ExitFlush(<<>>, content, inv.wfail)]
             ELSE [status |-> Exited(0),
                   file |-> [o.file EXCEPT !.data = ExitFlush(o.file.data, content, inv.wfail)],
                   out |-> <<>>]
    ELSE
        LET r == fscanf_s(src) IN
        IF r.n # 1 THEN [same EXCEPT !.status = Exited(3)]
        ELSE IF r.overflow THEN [same EXCEPT !.status = ub]
        ELSE IF strcmp(r.tok, content) # 0 THEN [same EXCEPT !.status = Exited(4)]
        ELSE [same EXCEPT !.status = Exited(0)]

WriteFaults == {"none", "fputs", "flush"}

Invocations ==
    { [argv |-> <<"rw">>, sin |-> <<>>, wfail |-> "none"],
      [argv |-> <<"rw", "r", "p", "q">>, sin |-> <<>>, wfail |-> "none"],
      [argv |-> <<"rw", "x">>, sin |-> <<>>, wfail |-> "none"],
      [argv |-> <<"rw", "x", "p">>, sin |-> <<>>, wfail |-> "none"] }
    \cup { [argv |-> <<"rw", "r">>, sin |-> s, wfail |-> "none"] : s \in StdinContents }
    \cup { [argv |-> <<"rw", "r", p>>, sin |-> <<>>, wfail |-> "none"] : p \in Paths }
    \cup { [argv |-> <<"rw", "w">>, sin |-> <<>>, wfail |-> f] : f \in WriteFaults }
    \cup { [argv |-> <<"rw", "w", p[1]>>, sin |-> <<>>, wfail |-> p[2]] :
             p \in Paths \X WriteFaults }

PathOf(inv) == IF Len(inv.argv) >= 3 THEN inv.argv[3] ELSE "p"

\* One run of the probe, from launch to the end of the process.
RwRun(inv, ub) ==
    /\ Len(runs) < MaxRuns
    /\ LET p == PathOf(inv)
           res == rw_main(inv, fs[p], dirWritable, ub)
       IN /\ fs' = [fs EXCEPT ![p] = res.file]
          /\ runs' = Append(runs, [inv |-> inv, pre |-> fs[p], dirw |-> dirWritable,
                                   status |-> res.status, out |-> res.out])
    /\ UNCHANGED dirWritable

RwInit ==
    /\ fs \in [Paths -> Files]
    /\ dirWritable \in BOOLEAN
    /\ runs = <<>>

RwOff ==
    /\ fs = [p \in Paths |-> NoFile]
    /\ dirWritable = TRUE
    /\ runs = <<>>


(***************************************************************************)
(*                  Shared-memory isolation probe (shm.c)                  *)
(***************************************************************************)
\* shmget(114, ...)
Key == 114

\* Instances of the probe the model launches.
NInst == 3

Namespaces == {"ns1", "ns2"}
Instances == 1..NInst

\* Mutation of the flags of the call: the exclusive flag left out.
ShmFlagsNoExcl == {"IPC_CREAT"}

\* IPC_CREAT | IPC_EXCL
ShmFlags == {"IPC_CREAT", "IPC_EXCL"}

\* shmget(key, size, flags) on the key table of one IPC namespace: the
\* identifier (>= 0) or -1, and the table afterwards.  A segment stays in the
\* table until it is removed; the probe never removes it.
shmget(keys, key, flags) ==
    IF key \in keys
    THEN IF "IPC_CREAT" \in flags /\ "IPC_EXCL" \in flags
         THEN [r |-> -1, keys |-> keys]
         ELSE [r |-> 0, keys |-> keys]
    ELSE IF "IPC_CREAT" \in flags
         THEN [r |-> 0, keys |-> keys \cup {key}]
         ELSE [r |-> -1, keys |-> keys]

IdleInst == [pc |-> "idle", ns |-> "ns1", r |-> 0, status |-> Running,
             pre |-> {}, before |-> {}, free |-> FALSE]

\* The supervisor starts instance i in IPC namespace n.  pre and before record
\* the namespace's segments and the instances that have already ended.
ShmLaunch(i, n) ==
    /\ inst[i].pc = "idle"
    /\ inst' = [inst EXCEPT ![i] = [IdleInst EXCEPT !.pc = "started", !.ns = n,
                    !.pre = shm[n],
                    !.before = {j \in Instances : inst[j].pc = "ended"}]]
    /\ UNCHANGED <<shm, shm0>>

\* int r = shmget(114, 4096, IPC_CREAT | IPC_EXCL);
ShmGet(i) ==
    /\ inst[i].pc = "started"
    /\ LET n == inst[i].ns
           res == shmget(shm[n], Key, ShmFlags)
       IN /\ shm' = [shm EXCEPT ![n] = res.keys]
          /\ inst' = [inst EXCEPT ![i].pc = "called", ![i].r = res.r,
                                   ![i].free = Key \notin shm[n]]
    /\ UNCHANGED shm0

\* if (r < 0) { perror("shmget"); return 1; } return 0;
ShmReturn(i) ==
    /\ inst[i].pc = "called"
    /\ inst' = [inst EXCEPT ![i].pc = "ended",
                    ![i].status = IF inst[i].r < 0 THEN Exited(1) ELSE Exited(0)]
    /\ UNCHANGED <<shm, shm0>>

ShmInit ==
    /\ shm \in [Namespaces -> SUBSET {Key, Key + 1}]
    /\ shm0 = shm
    /\ inst = [i \in Instances |-> IdleInst]

ShmOff ==
    /\ shm = [n \in Namespaces |-> {}]
    /\ shm0 = shm
    /\ inst = [i \in Instances |-> IdleInst]

(***************************************************************************)
(*                    CPU-accounting probe (cpuset.cc)                     *)
(***************************************************************************)
\* Ticks of process CPU time in one second, and the largest value of the
\* clock the model follows.
TicksPerSec == 2
MaxCpu == 3

Workers == {"a", "b"}

\* Mutation of main: it returns without joining b.
MainProgramNoJoinB ==
    << <<"spawn", "a">>, <<"spawn", "b">>, <<"join", "a">>, <<"return", "">> >>

\* main: std::thread a(thread); std::thread b(thread); a.join(); b.join();
\* return failed;
MainProgram ==
    << <<"spawn", "a">>, <<"spawn", "b">>, <<"join", "a">>, <<"join", "b">>,
       <<"return", "">> >>

IdleWorker == [pc |-> "unborn", sec |-> -1, qfail |-> FALSE, reached |-> FALSE]

CpuSpawn(w) ==
    /\ cmain <= Len(MainProgram)
    /\ MainProgram[cmain] = <<"spawn", w>>
    /\ wk' = [wk EXCEPT ![w].pc = "spin"]
    /\ cmain' = cmain + 1
    /\ UNCHANGED <<failed, cputime, cstatus>>

\* for (volatile int i = 0; i < 10000; i++);  the loop burns CPU time.
WorkerSpin(w) ==
    /\ cstatus = Running
    /\ wk[w].pc = "spin"
    /\ cputime' = IF cputime < MaxCpu THEN cputime + 1 ELSE cputime
    /\ wk' = [wk EXCEPT ![w].pc = "query"]
    /\ UNCHANGED <<failed, cmain, cstatus>>

\* if (clock_gettime(CLOCK_PROCESS_CPUTIME_ID, &sp) != 0) { failed.store(true); break; }
WorkerQuery(w, ok) ==
    /\ cstatus = Running
    /\ wk[w].pc = "query"
    /\ IF ok
       THEN /\ wk' = [wk EXCEPT ![w].pc = "test", ![w].sec = cputime \div TicksPerSec]
            /\ UNCHANGED failed
       ELSE /\ failed' = TRUE
            /\ wk' = [wk EXCEPT ![w].pc = "done", ![w].qfail = TRUE]
    /\ UNCHANGED <<cputime, cmain, cstatus>>

\* } while (sp.tv_sec < 1);
WorkerTest(w) ==
    /\ cstatus = Running
    /\ wk[w].pc = "test"
    /\ IF wk[w].sec < 1
       THEN wk' = [wk EXCEPT ![w].pc = "spin"]
       ELSE wk' = [wk EXCEPT ![w].pc = "done", ![w].reached = TRUE]
    /\ UNCHANGED <<failed, cputime, cmain, cstatus>>

\* a.join(); b.join();
CpuJoin(w) ==
    /\ cmain <= Len(MainProgram)
    /\ MainProgram[cmain] = <<"join", w>>
    /\ wk[w].pc = "done"
    /\ cmain' = cmain + 1
    /\ UNCHANGED <<failed, cputime, wk, cstatus>>

\* return failed;
CpuReturn ==
    /\ cstatus = Running
    /\ cmain <= Len(MainProgram)
    /\ MainProgram[cmain] = <<"return", "">>
    /\ cstatus' = Exited(IF failed THEN 1 ELSE 0)
    /\ cmain' = cmain + 1
    /\ UNCHANGED <<failed, cputime, wk>>

CpuInit ==
    /\ failed = FALSE
    /\ cputime \in 0..MaxCpu
    /\ cmain = 1
    /\ wk = [w \in Workers |-> IdleWorker]
    /\ cstatus = Running

CpuOff ==
    /\ failed = FALSE
    /\ cputime = 0
    /\ cmain = 1
    /\ wk = [w \in Workers |-> IdleWorker]
    /\ cstatus = Running


(***************************************************************************)
(*                   Privilege-mapping probe (setuid.c)                    *)
(***************************************************************************)
\* setuid(514)
TargetUid == 514

Uids == {0, TargetUid, TargetUid + 1}

\* setuid(uid) for a process with credentials c in a user namespace that maps
\* the user IDs in map: the return value, errno and the credentials afterwards.
setuid(c, map, uid) ==
    IF uid \notin map THEN [r |-> -1, errno |-> "EINVAL", cred |-> c]
    ELSE IF c.cap
         THEN [r |-> 0, errno |-> "none",
               cred |-> [c EXCEPT !.ruid = uid, !.euid = uid, !.suid = uid]]
    ELSE IF uid = c.ruid \/ uid = c.suid
         THEN [r |-> 0, errno |-> "none", cred |-> [c EXCEPT !.euid = uid]]
    ELSE [r |-> -1, errno |-> "EPERM", cred |-> c]

\* Mutation of the return expression: the call's failure alone is the pass case.
setuid_ret_any_failure(r, errno) == IF r >= 0 THEN 1 ELSE 0

\* return setuid(514) >= 0 || errno != EINVAL;
setuid_ret(r, errno) == IF r >= 0 \/ errno # "EINVAL" THEN 1 ELSE 0

SetuidMain ==
    /\ sstatus = Running
    /\ LET res == setuid(cred, uidmap, TargetUid)
       IN /\ cred' = res.cred
          /\ sres' = [r |-> res.r, errno |-> res.errno]
          /\ sstatus' = Exited(setuid_ret(res.r, res.errno))
    /\ UNCHANGED uidmap

SetuidInit ==
    /\ uidmap \in SUBSET Uids
    /\ cred \in [ruid : uidmap, euid : uidmap, suid : uidmap, cap : BOOLEAN]
    /\ sres = [r |-> 0, errno |-> "none"]
    /\ sstatus = Running

SetuidOff ==
    /\ uidmap = {0}
    /\ cred = [ruid |-> 0, euid |-> 0, suid |-> 0, cap |-> TRUE]
    /\ sres = [r |-> 0, errno |-> "none"]
    /\ sstatus = Running

(***************************************************************************)
(*                     Memory-pressure probe (memory.c)                    *)
(***************************************************************************)
\* malloc(256 << 20): the block, in units of 64 MiB.
BlockUnits == 4

\* Memory the process holds besides the block, and the largest ceiling.
Overhead == 1
MaxCeiling == 10

\* A ceiling on the address space ("as") refuses the allocation; a ceiling
\* on resident memory ("rss") is enforced when pages are written.
Ceilings ==
    {[kind |-> "none", limit |-> 0]}
    \cup [kind : {"as", "rss"}, limit : Overhead..MaxCeiling]

\* Mutation of the allocation's check: the result is never taken as NULL.
malloc_never_null(c, size) == TRUE

\* char *x = malloc(size); x is not NULL.
malloc(c, size) == ~(c.kind = "as" /\ Overhead + size > c.limit)

\* char *x = malloc(256 << 20); if (!x) return 1;
MemMalloc ==
    /\ mpc = "malloc"
    /\ IF malloc(ceil, BlockUnits)
       THEN mpc' = "memset" /\ UNCHANGED mstatus
       ELSE mpc' = "ended" /\ mstatus' = Exited(1)
    /\ UNCHANGED <<ceil, touched>>

\* memset(x, 1, 256 << 20), one unit at a time: a write makes the unit
\* resident, and the kernel kills the process when that passes the ceiling.
MemsetStep ==
    /\ mpc = "memset"
    /\ touched < BlockUnits
    /\ IF ceil.kind = "rss" /\ Overhead + touched + 1 > ceil.limit
       THEN mpc' = "ended" /\ mstatus' = Signaled("SIGKILL") /\ UNCHANGED touched
       ELSE /\ touched' = touched + 1
            /\ UNCHANGED <<mpc, mstatus>>
    /\ UNCHANGED ceil

\* barrier(); return 0;
MemReturn ==
    /\ mpc = "memset"
    /\ touched = BlockUnits
    /\ mpc' = "ended"
    /\ mstatus' = Exited(0)
    /\ UNCHANGED <<ceil, touched>>

MemInit ==
    /\ ceil \in Ceilings
    /\ mpc = "malloc"
    /\ touched = 0
    /\ mstatus = Running

MemOff ==
    /\ ceil = [kind |-> "none", limit |-> 0]
    /\ mpc = "malloc"
    /\ touched = 0
    /\ mstatus = Running


(***************************************************************************)
(*                     PID-churn probe (waste-pid.cc)                      *)
(***************************************************************************)
\* Mutation of main's call: a chain of depth 10.
ShortDepth == 100 - 90

\* thread(100);
Depth == 100

\* Largest cap on live threads the supervisor imposes; cap = 0 is no cap.
MaxCap == 102

\* Threads of the process that have not ended; frames[1] is the main thread.
Live == Cardinality({k \in 1..Len(frames) : frames[k].pc # "done"})

\* if (x == 0) return;
PidEntry(k) ==
    /\ pstatus = Running
    /\ k \in 1..Len(frames)
    /\ frames[k].pc = "entry"
    /\ frames' = [frames EXCEPT ![k].pc =
                     IF frames[k].x = 0 THEN (IF k = 1 THEN "ret" ELSE "done")
                     ELSE "spawn"]
    /\ UNCHANGED <<cap, pstatus>>

\* auto t = std::thread(thread, x - 1);  Over the cap the constructor throws
\* std::system_error, which nothing catches: the process is aborted.
PidSpawn(k) ==
    /\ pstatus = Running
    /\ k \in 1..Len(frames)
    /\ frames[k].pc = "spawn"
    /\ IF cap # 0 /\ Live + 1 > cap
       THEN pstatus' = Signaled("SIGABRT") /\ UNCHANGED frames
       ELSE /\ frames' = Append([frames EXCEPT ![k].pc = "join"],
                                [x |-> frames[k].x - 1, pc |-> "entry"])
            /\ UNCHANGED pstatus
    /\ UNCHANGED cap

\* t.join(); and the return from thread().
PidJoin(k) ==
    /\ pstatus = Running
    /\ k \in 1..(Len(frames) - 1)
    /\ frames[k].pc = "join"
    /\ frames[k + 1].pc = "done"
    /\ frames' = [SubSeq(frames, 1, k) EXCEPT ![k].pc = IF k = 1 THEN "ret" ELSE "done"]
    /\ UNCHANGED <<cap, pstatus>>

\* return 0;
PidReturn ==
    /\ pstatus = Running
    /\ frames[1].pc = "ret"
    /\ pstatus' = Exited(0)
    /\ UNCHANGED <<cap, frames>>

PidInit ==
    /\ cap \in 0..MaxCap
    /\ frames = << [x |-> Depth, pc |-> "entry"] >>
    /\ pstatus = Running

PidOff ==
    /\ cap = 0
    /\ frames = << [x |-> Depth, pc |-> "entry"] >>
    /\ pstatus = Running

(***************************************************************************)
(*                 Termination-handling probe (orga-itsuka.c)              *)
(***************************************************************************)
\* SIGTERM signals sent, and loop iterations counted, at most.
MaxTerm == 4
MaxIter == 5

\* Mutation of the disposition installed: the default one.
sa_handler_default == "SIG_DFL"

\* struct sigaction sa = { .sa_handler = SIG_IGN };
sa_handler == "SIG_IGN"

\* sigaction(SIGTERM, &sa, NULL);
TermSigaction ==
    /\ tstatus = Running
    /\ tpc = "sigaction"
    /\ disp' = sa_handler
    /\ tpc' = "loop"
    /\ UNCHANGED <<tstatus, nterm, iter>>

\* while (1) usleep(10000);  the call, and the return from it.
TermUsleep ==
    /\ tstatus = Running
    /\ tpc = "loop"
    /\ tpc' = "usleep"
    /\ UNCHANGED <<disp, tstatus, nterm, iter>>

TermWake ==
    /\ tstatus = Running
    /\ tpc = "usleep"
    /\ tpc' = "loop"
    /\ iter' = IF iter < MaxIter THEN iter + 1 ELSE iter
    /\ UNCHANGED <<disp, tstatus, nterm>>

\* The supervisor sends SIGTERM: the default disposition ends the process, the
\* ignore disposition discards the signal.
SendTerm ==
    /\ tstatus = Running
    /\ nterm < MaxTerm
    /\ nterm' = nterm + 1
    /\ tstatus' = IF disp = "SIG_IGN" THEN tstatus ELSE Signaled("SIGTERM")
    /\ UNCHANGED <<disp, tpc, iter>>

\* The supervisor sends SIGKILL, which no disposition changes.
SendKill ==
    /\ tstatus = Running
    /\ tstatus' = Signaled("SIGKILL")
    /\ UNCHANGED <<disp, tpc, nterm, iter>>

TermInit ==
    /\ disp = "SIG_DFL"
    /\ tpc = "sigaction"
    /\ tstatus = Running
    /\ nterm = 0
    /\ iter = 0

TermOff ==
    /\ disp = "SIG_DFL"
    /\ tpc = "sigaction"
    /\ tstatus = Running
    /\ nterm = 0
    /\ iter = 0

(***************************************************************************)
(*                            Specifications                               *)
(***************************************************************************)
NotRw   == UNCHANGED <<shmVars, cpuVars, suidVars, memVars, pidVars, termVars>>
NotShm  == UNCHANGED <<rwVars, cpuVars, suidVars, memVars, pidVars, termVars>>
NotCpu  == UNCHANGED <<rwVars, shmVars, suidVars, memVars, pidVars, termVars>>
NotSuid == UNCHANGED <<rwVars, shmVars, cpuVars, memVars, pidVars, termVars>>
NotMem  == UNCHANGED <<rwVars, shmVars, cpuVars, suidVars, pidVars, termVars>>
NotPid  == UNCHANGED <<rwVars, shmVars, cpuVars, suidVars, memVars, termVars>>
NotTerm == UNCHANGED <<rwVars, shmVars, cpuVars, suidVars, memVars, pidVars>>

\* The supervisor runs the file round-trip probe, one run after the other.
InitRw == RwInit /\ ShmOff /\ CpuOff /\ SetuidOff /\ MemOff /\ PidOff /\ TermOff
StepRw == \E inv \in Invocations, ub \in OverflowOutcomes : RwRun(inv, ub) /\ NotRw
SpecRw == InitRw /\ [][StepRw]_vars

\* Instances of the shared-memory probe run concurrently in two namespaces.
InitShm == RwOff /\ ShmInit /\ CpuOff /\ SetuidOff /\ MemOff /\ PidOff /\ TermOff
StepShm ==
    \/ \E i \in Instances, n \in Namespaces : ShmLaunch(i, n) /\ NotShm
    \/ \E i \in Instances : ShmGet(i) /\ NotShm
    \/ \E i \in Instances : ShmReturn(i) /\ NotShm
SpecShm == InitShm /\ [][StepShm]_vars

\* One run of the CPU-accounting probe: main and its two workers interleave.
InitCpu == RwOff /\ ShmOff /\ CpuInit /\ SetuidOff /\ MemOff /\ PidOff /\ TermOff
StepCpu ==
    \/ \E w \in Workers : CpuSpawn(w) /\ NotCpu
    \/ \E w \in Workers : WorkerSpin(w) /\ NotCpu
    \/ \E w \in Workers, ok \in BOOLEAN : WorkerQuery(w, ok) /\ NotCpu
    \/ \E w \in Workers : WorkerTest(w) /\ NotCpu
    \/ \E w \in Workers : CpuJoin(w) /\ NotCpu
    \/ CpuReturn /\ NotCpu
SpecCpu == InitCpu /\ [][StepCpu]_vars

\* One run of the privilege-mapping probe in any user namespace.
InitSetuid == RwOff /\ ShmOff /\ CpuOff /\ SetuidInit /\ MemOff /\ PidOff /\ TermOff
StepSetuid == SetuidMain /\ NotSuid
SpecSetuid == InitSetuid /\ [][StepSetuid]_vars

\* One run of the memory-pressure probe under any ceiling.
InitMem == RwOff /\ ShmOff /\ CpuOff /\ SetuidOff /\ MemInit /\ PidOff /\ TermOff
StepMem ==
    \/ MemMalloc /\ NotMem
    \/ MemsetStep /\ NotMem
    \/ MemReturn /\ NotMem
SpecMem == InitMem /\ [][StepMem]_vars

\* One run of the PID-churn probe under any cap; the scheduler runs a thread
\* that can take a step.
InitPid == RwOff /\ ShmOff /\ CpuOff /\ SetuidOff /\ MemOff /\ PidInit /\ TermOff
StepPid ==
    \/ \E k \in 1..(Depth + 1) : PidEntry(k) /\ NotPid
    \/ \E k \in 1..(Depth + 1) : PidSpawn(k) /\ NotPid
    \/ \E k \in 1..(Depth + 1) : PidJoin(k) /\ NotPid
    \/ PidReturn /\ NotPid
SpecPid == InitPid /\ [][StepPid]_vars /\ WF_vars(StepPid)

\* One run of the termination-handling probe; the supervisor sends signals.
InitTerm == RwOff /\ ShmOff /\ CpuOff /\ SetuidOff /\ MemOff /\ PidOff /\ TermInit
StepTerm ==
    \/ TermSigaction /\ NotTerm
    \/ TermUsleep /\ NotTerm
    \/ TermWake /\ NotTerm
    \/ SendTerm /\ NotTerm
    \/ SendKill /\ NotTerm
SpecTerm == InitTerm /\ [][StepTerm]_vars

(***************************************************************************)
(*                               Properties                                *)
(***************************************************************************)
\* The steps of a run of rw, as the exit-code contract names them, on the
\* inputs of log entry e.
Target(e) == IF Len(e.inv.argv) = 2 THEN e.inv.sin ELSE e.pre.data
UsageError(e) ==
    IF Len(e.inv.argv) - 1 \notin {1, 2} THEN TRUE
    ELSE e.inv.argv[2] \notin {"r", "w"}
OpenFails(e) ==
    /\ Len(e.inv.argv) = 3
    /\ IF e.inv.argv[2] = "r" THEN ~e.pre.exists
       ELSE IF e.pre.exists THEN e.pre.perm # "rw" ELSE ~e.dirw
OperationFails(e) ==
    IF e.inv.argv[2] = "w" THEN e.inv.wfail # "none"
    ELSE \A i \in 1..Len(Target(e)) : Target(e)[i] \in Whitespace
TokenDiffers(e) ==
    /\ e.inv.argv[2] = "r"
    /\ fscanf_s(Target(e)).tok # content
ContractCode(e) ==
    IF UsageError(e) THEN 1
    ELSE IF OpenFails(e) THEN 2
    ELSE IF OperationFails(e) THEN 3
    ELSE IF TokenDiffers(e) THEN 4
    ELSE 0

\* C1: every run of rw ends with the exit code of the first failing step in
\* the order usage (1), open (2), operation (3), mismatch (4), else 0, and
\* with no other status.
C1_ExitCodeOfFirstFailingStep ==
    \A k \in 1..Len(runs) : runs[k].status = Exited(ContractCode(runs[k]))

\* The contract holds of the runs whose write does not fail at the flush on
\* exit and whose token fits buf.
RwContractWhenFlushedAndFits ==
    \A k \in 1..Len(runs) :
        \/ runs[k].inv.wfail = "flush"
        \/ (~UsageError(runs[k]) /\ ~OpenFails(runs[k]) /\ runs[k].inv.argv[2] = "r"
              /\ fscanf_s(Target(runs[k])).overflow)
        \/ runs[k].status = Exited(ContractCode(runs[k]))

\* C2: a run in write mode on a path that exits 0, followed by a run in read
\* mode on the same path, makes the read exit 0.
C2_WriteThenReadExitsZero ==
    \A k \in 1..(Len(runs) - 1) :
        ( /\ Len(runs[k].inv.argv) = 3
          /\ runs[k].inv.argv[2] = "w"
          /\ runs[k].status = Exited(0)
          /\ runs[k + 1].inv.argv = <<"rw", "r", runs[k].inv.argv[3]>> )
        => runs[k + 1].status = Exited(0)

\* The round trip holds when the write's data reaches the file.
RwRoundTripWhenFlushed ==
    \A k \in 1..(Len(runs) - 1) :
        ( /\ Len(runs[k].inv.argv) = 3
          /\ runs[k].inv.argv[2] = "w"
          /\ runs[k].status = Exited(0)
          /\ runs[k].inv.wfail = "none"
          /\ runs[k + 1].inv.argv = <<"rw", "r", runs[k].inv.argv[3]>> )
        => runs[k + 1].status = Exited(0)

\* C3: when the CPU-accounting probe has ended, both workers have ended, the
\* exit code is 1 exactly when the time query failed on a worker, and 0
\* exactly when each worker left its loop on a successful query that
\* reported at least one second.
C3_CpuExitAfterJoin ==
    cstatus # Running =>
        /\ \A w \in Workers : wk[w].pc = "done"
        /\ cstatus \in {Exited(0), Exited(1)}
        /\ (cstatus = Exited(1)) <=> (\E w \in Workers : wk[w].qfail)
        /\ (cstatus = Exited(0)) <=>
               (\A w \in Workers : wk[w].reached /\ ~wk[w].qfail /\ wk[w].sec >= 1)

C3_Witness ==
    /\ cstatus = Exited(1)
    /\ wk["a"].reached
    /\ wk["b"].qfail

\* C4: the privilege-mapping probe exits 0 exactly when setuid(514) fails
\* with EINVAL, which is when 514 is not mapped, and exits nonzero otherwise.
C4_SetuidInverted ==
    sstatus # Running =>
        /\ sstatus.sig = "none"
        /\ (sstatus = Exited(0)) <=> (sres.r < 0 /\ sres.errno = "EINVAL")
        /\ (sstatus = Exited(0)) <=> (TargetUid \notin uidmap)
        /\ sstatus # Exited(0) => sstatus.exit > 0

C4_Witness ==
    /\ sstatus = Exited(0)
    /\ TargetUid \notin uidmap
    /\ sres.errno = "EINVAL"

\* Instances in namespace n that have made their claim, and those whose
\* claim succeeded.
Claimers(n) == {i \in Instances : inst[i].ns = n /\ inst[i].pc \in {"called", "ended"}}
Winners(n) == {i \in Claimers(n) : inst[i].r >= 0}

\* C5: an instance exits 0 exactly when the key was free in its namespace at
\* its claim, and 1 otherwise; in a namespace where the key was free, exactly
\* one of the instances that have made the claim succeeded, and none where it
\* was taken; so at most one instance per namespace exits 0, and a namespace's
\* key is claimed only from within that namespace.
C5_ShmExclusive ==
    /\ \A i \in Instances : inst[i].pc = "ended" =>
           inst[i].status = IF inst[i].free THEN Exited(0) ELSE Exited(1)
    /\ \A n \in Namespaces :
           /\ Cardinality({i \in Claimers(n) : inst[i].status = Exited(0)}) <= 1
           /\ Claimers(n) # {} =>
                  Cardinality(Winners(n)) = IF Key \in shm0[n] THEN 0 ELSE 1
           /\ Winners(n) = {i \in Claimers(n) : inst[i].free}
           /\ (Key \in shm[n]) <=> (Key \in shm0[n] \/ Winners(n) # {})

C5_Witness ==
    /\ \A i \in Instances : inst[i].pc = "ended"
    /\ inst[1].ns = inst[2].ns
    /\ inst[3].ns # inst[1].ns
    /\ inst[1].status = Exited(1)
    /\ inst[2].status = Exited(0)
    /\ inst[3].status = Exited(0)

\* The ceiling is below the block plus the overhead.
Below == ceil.kind # "none" /\ ceil.limit < BlockUnits + Overhead

\* C6: the probe ends by exit 0 with every unit of the block written when the
\* ceiling is at least the block plus overhead, and by exit 1 and in no other
\* way when the ceiling is below that.
C6_ExitOneBelowCeiling ==
    mstatus # Running =>
        IF Below THEN mstatus = Exited(1)
        ELSE mstatus = Exited(0) /\ touched = BlockUnits

\* C6, amended: with the ceiling at least the block plus overhead the probe
\* ends by exit 0 with every unit written; with the ceiling below, it never
\* exits 0: it exits 1 with nothing written when the ceiling refuses the
\* allocation, and is killed before the block is fully written when the
\* ceiling is enforced on the pages it writes.
C6_NeverZeroBelowCeiling ==
    mstatus # Running =>
        IF Below
        THEN \/ ceil.kind = "as" /\ mstatus = Exited(1) /\ touched = 0
             \/ ceil.kind = "rss" /\ mstatus = Signaled("SIGKILL") /\ touched < BlockUnits
        ELSE mstatus = Exited(0) /\ touched = BlockUnits

C6_Witness ==
    /\ Below
    /\ ceil.kind = "rss"
    /\ mstatus = Signaled("SIGKILL")
    /\ touched > 0

\* C7: with no cap the chain unwinds and the process eventually exits 0,
\* with every spawned thread joined; with a cap below 100 on live threads
\* the process never exits 0.
C7_PidChurn ==
    /\ (cap = 0) ~> (pstatus = Exited(0))
    /\ [](pstatus = Exited(0) => Len(frames) = 1)
    /\ [](cap \in 1..99 => pstatus # Exited(0))

C7_Witness ==
    /\ cap \in 1..99
    /\ pstatus = Signaled("SIGABRT")
    /\ Live = cap
    /\ Len(frames) = cap

\* C8: the probe never exits; once past the sigaction call it stays running
\* through every step, SIGTERM deliveries included, except a step that
\* delivers SIGKILL.
C8_TermOnlyKillEnds ==
    /\ [](tstatus.sig # "none")
    /\ [][(tpc # "sigaction" /\ tstatus = Running)
            => tstatus' \in {Running, Signaled("SIGKILL")}]_vars

C8_Witness ==
    /\ tstatus = Running
    /\ tpc = "usleep"
    /\ nterm >= 2
    /\ iter >= 1

\* No instance but i (and j) has been started in i's namespace.
OnlyIn(i, others) ==
    \A k \in Instances \ ({i} \cup others) :
        inst[k].pc = "idle" \/ inst[k].ns # inst[i].ns

\* C9: two runs of a probe in succession in the same environment, with
\* nothing else acting in between, end with the same exit code; here the
\* shared-memory probe, j launched after i ended in the same IPC namespace.
C9_SameExitTwice ==
    \A i, j \in Instances :
        ( /\ i # j
          /\ inst[i].pc = "ended" /\ inst[j].pc = "ended"
          /\ inst[i].ns = inst[j].ns
          /\ i \in inst[j].before
          /\ OnlyIn(i, {j}) )
        => inst[j].status = inst[i].status

\* C10: once a probe has ended, the state outside the process is what it was
\* when the probe started; here the segments of the IPC namespace of an
\* instance of the shared-memory probe that ran alone in it.
C10_NothingOutlivesProbe ==
    \A i \in Instances :
        (inst[i].pc = "ended" /\ OnlyIn(i, {})) => shm[inst[i].ns] = inst[i].pre

====
